---- MODULE Spec2Model ----
(***************************************************************************)
(* Model of webcrawl/crawl_utilities.py, class Crawler: the fetch-with-    *)
(* fallback protocol (response), attribute extraction (get) and the export *)
(* of the accumulated error records (write_errors).                        *)
(*                                                                         *)
(* One Crawler instance is modelled.  A caller invokes one operation at a  *)
(* time (the calls are synchronous); the operation runs to completion and  *)
(* leaves its arguments, its return value and the transport requests it    *)
(* issued in history variables, until the caller resumes.                  *)
(*                                                                         *)
(* The logger is a sink: its calls change nothing of the instance.  In    *)
(* Spec they succeed and are left out; SpecLogged lets them raise.  The    *)
(* time field of the error records is left out.  Assertions are enabled,   *)
(* as the interpreter runs by default.                                     *)
(***************************************************************************)
EXTENDS Integers, Sequences, FiniteSets

VARIABLES
    resp_attributes,  \* self.resp_attributes: allow-list of HTMLResponse
    elem_attributes,  \* self.elem_attributes: allow-list of HTML / Element
    self_headers,     \* self.headers
    self_timeout,     \* self.timeout
    _err_recs,        \* self._err_recs: the ErrorLog
    op,               \* history: the operation that last ran, "idle" if none
    args,             \* history: its arguments
    ret,              \* history: its return value
    raised,           \* history: the exception it raised to its caller, or None
    attempts,         \* history: the requests it passed to session.get, in order
    pre_recs,         \* history: self._err_recs when it was called
    written,          \* history: what it wrote to the filesystem
    depth,            \* history: deepest nesting of get it reached
    reentered         \* history: whether it recovered from a validation
                      \* failure for the attribute "url"

vars == <<resp_attributes, elem_attributes, self_headers, self_timeout, _err_recs,
          op, args, ret, raised, attempts, pre_recs, written, depth, reentered>>

(***************************************************************************)
(* Python values.  Every value is a record tagged with its type, so that   *)
(* values of different types can be compared.                              *)
(***************************************************************************)
None == [t |-> "None"]

Str(s) == [t |-> "str", s |-> s]

PyInt(i) == [t |-> "int", i |-> i]

Dict(keys) == [t |-> "dict", keys |-> keys]

Exc(cls) == [t |-> "exc", cls |-> cls]

Tuple(items) == [t |-> "tuple", items |-> items]

\* A str that holds a URL, kept as the components furl parses it into.
Url(scheme, rest) == [t |-> "url", scheme |-> scheme, rest |-> rest]

\* Python truth value testing, as used by `or`, `if err`, `if comp_id`.
Truthy(v) ==
    CASE v.t = "None" -> FALSE
      [] v.t = "str" -> v.s /= ""
      [] v.t = "int" -> v.i /= 0
      [] v.t = "dict" -> v.keys /= {}
      [] OTHER -> TRUE

\* x or y
Or(x, y) == IF Truthy(x) THEN x ELSE y

\* str(v): a str is its own str; of the other values only None is passed.
PyStr(v) == IF v.t = "str" THEN v ELSE Str("None")

\* The outcome of running a function body: it returns ret or raises raised.
Returns(v) == [raised |-> None, ret |-> v]

Raises(e) == [raised |-> e, ret |-> None]

(***************************************************************************)
(* Bounds and input sets.                                                  *)
(***************************************************************************)
\* Operations are started while the ErrorLog holds at most MaxLog records.
MaxLog == 1

\* The interpreter's recursion limit, counted in nested calls of get.
MaxDepth == 2

DefaultTimeout == 10

Schemes == {"http", "https", "ftp"}

Urls == {Url(s, "example.com") : s \in Schemes}

EntityIds == {None, Str("c7")}

\* headers / timeout / cookies as given at the call site.
Overrides ==
    { [headers |-> Dict({}), timeout |-> None, cookies |-> None],
      [headers |-> Dict({"referer"}), timeout |-> PyInt(5), cookies |-> Dict({"sid"})] }

\* A requests_html.HTMLResponse as the transport returns it for a request of url.
Response(ok, reason, url) ==
    [t |-> "HTMLResponse", ok |-> ok, reason |-> Str(reason), url |-> url]

\* What session.get(url, ...) can do: raise, return None, return a response
\* that is OK, or one that is not OK (with or without a reason phrase).
TransportOutcomes(url) ==
    { Raises(Exc("ConnectionError")), Raises(Exc("Timeout")),
      Returns(None),
      Returns(Response(TRUE, "OK", url)),
      Returns(Response(FALSE, "Not Found", url)),
      Returns(Response(FALSE, "", url)) }

(***************************************************************************)
(* utilities.decorators.error_trap: the decorated function returns the     *)
(* pair (value, None), or (None, exception) when its body raised.          *)
(***************************************************************************)
error_trap(outcome) ==
    IF outcome.raised /= None
    THEN Tuple(<<None, outcome.raised>>)
    ELSE Tuple(<<outcome.ret, None>>)

\* Variant of _push_error that does not record the entity id.
_push_error_no_id(log, error, url, comp_id, attr) ==
    Append(log, [company_profile_id |-> None, attribute |-> attr,
                 url |-> url, exception |-> error])

(***************************************************************************)
(* Crawler._push_error: append one record to the log.  The record's time   *)
(* field (the wall clock) and the message sent to the logger are left out. *)
(***************************************************************************)
_push_error(log, error, url, comp_id, attr) ==
    LET c_id == IF Truthy(comp_id) THEN PyStr(comp_id) ELSE comp_id
    IN  Append(log, [company_profile_id |-> c_id, attribute |-> attr,
                     url |-> url, exception |-> error])

\* Variant of _get_response that returns the reason of an OK response too.
_get_response_reason(url, headers, timeout, cookies, outcome) ==
    error_trap(
        IF outcome.raised /= None THEN outcome
        ELSE LET r == outcome.ret
             IN  IF r = None THEN Returns(Tuple(<<None, None, url>>))
                 ELSE Returns(Tuple(<<r, r.reason, r.url>>)))

(***************************************************************************)
(* Crawler._get_response, given what session.get does for the request.     *)
(***************************************************************************)
_get_response(url, headers, timeout, cookies, outcome) ==
    error_trap(
        IF outcome.raised /= None THEN outcome
        ELSE LET r == outcome.ret
             IN  IF r = None THEN Returns(Tuple(<<None, None, url>>))
                 ELSE IF r.ok THEN Returns(Tuple(<<r, None, r.url>>))
                 ELSE Returns(Tuple(<<r, r.reason, r.url>>)))

\* Variant of flip_scheme that always sets the scheme 'http'.
flip_scheme_http(url) == Url("http", url.rest)

\* flip_scheme of Crawler.response: furl(url) with its scheme replaced.
flip_scheme(url) ==
    Url(IF url.scheme = "http" THEN "https" ELSE "http", url.rest)

\* Variant of NeedsRetry with the test for a null response inverted.
NeedsRetry_inverted(p) ==
    LET f_val == p.items[1]
        err == p.items[2]
    IN  \/ Truthy(err)
        \/ Truthy(f_val.items[2])
        \/ f_val.items[1] /= None

\* Variant of NeedsRetry without the test for a null response.
NeedsRetry_no_null(p) ==
    LET f_val == p.items[1]
        err == p.items[2]
    IN  \/ Truthy(err)
        \/ Truthy(f_val.items[2])

\* The condition under which Crawler.response retries.
NeedsRetry(p) ==
    LET f_val == p.items[1]
        err == p.items[2]
    IN  \/ Truthy(err)
        \/ Truthy(f_val.items[2])
        \/ f_val.items[1] = None

(***************************************************************************)
(* Crawler.response, given the outcomes of the (at most two) session.get   *)
(* calls: the value returned, the log and the requests issued.             *)
(***************************************************************************)
response(url, headers0, timeout0, cookies, c_id, out1, out2, log) ==
    LET headers == Or(headers0, self_headers)
        timeout == Or(timeout0, self_timeout)
        req1 == [url |-> url, headers |-> headers, timeout |-> timeout,
                 cookies |-> cookies]
        p1 == _get_response(url, headers, timeout, cookies, out1)
    IN  IF NeedsRetry(p1)
        THEN LET flipped_url == flip_scheme(url)
                 req2 == [url |-> flipped_url, headers |-> headers,
                          timeout |-> timeout, cookies |-> cookies]
                 p2 == _get_response(flipped_url, headers, timeout, cookies, out2)
                 f_val == p2.items[1]
                 err == p2.items[2]
             IN  IF Truthy(err)
                 THEN [ret |-> None, raised |-> None,
                       log |-> _push_error(log, err, flipped_url, c_id, None),
                       attempts |-> <<req1, req2>>]
                 ELSE LET log1 == IF f_val.items[1] = None
                                  THEN _push_error(log, Str("Response is NULL"),
                                                   flipped_url, c_id, None)
                                  ELSE log
                          log2 == IF Truthy(f_val.items[2])
                                  THEN _push_error(log1, f_val.items[2],
                                                   flipped_url, c_id, None)
                                  ELSE log1
                      IN  [ret |-> f_val.items[1], raised |-> None,
                           log |-> log2, attempts |-> <<req1, req2>>]
        ELSE [ret |-> p1.items[1].items[1], raised |-> None, log |-> log,
              attempts |-> <<req1>>]

(***************************************************************************)
(* Attribute extraction.  An object passed to get is known by its type and *)
(* by what reading its attributes does: reading "url" does url_acc, and    *)
(* reading (for "json": calling) any other attribute does attr_acc.        *)
(***************************************************************************)
Obj(kind, url_acc, attr_acc) ==
    [t |-> kind, url_acc |-> url_acc, attr_acc |-> attr_acc]

KnownKinds == {"HTMLResponse", "HTML", "Element"}

ObjUrl == Url("https", "example.com")

UrlAccessors == {Returns(ObjUrl), Returns(None), Raises(Exc("AttributeError"))}

AttrAccessors == {Returns(Str("v")), Returns(None), Raises(Exc("AttributeError"))}

\* The objects get is called with: every known kind, and None (what
\* response returns on failure), whose type is none of the known kinds.
Objects ==
    {Obj(k, u, x) : k \in KnownKinds, u \in UrlAccessors, x \in AttrAccessors}
        \cup {None}

AttrNames == {"url", "text", "status_code", "json"}

\* a in lst, for a Python list
In(a, lst) == \E i \in 1..Len(lst) : lst[i] = a

\* getattr(obj, a) if a != 'json' else getattr(obj, a)()
getattr(obj, a) == IF a = "url" THEN obj.url_acc ELSE obj.attr_acc

\* Variant of _check_valid_get that asserts the type of obj.
_check_valid_get_assert(obj, a) ==
    error_trap(
        IF obj.t = "HTMLResponse"
        THEN IF In(a, resp_attributes) THEN Returns(None)
             ELSE Raises(Exc("AssertionError"))
        ELSE IF obj.t = "HTML" \/ obj.t = "Element"
        THEN IF In(a, elem_attributes) THEN Returns(None)
             ELSE Raises(Exc("AssertionError"))
        ELSE Raises(Exc("AssertionError")))

(***************************************************************************)
(* Crawler._check_valid_get                                                *)
(***************************************************************************)
_check_valid_get(obj, a) ==
    error_trap(
        IF obj.t = "HTMLResponse"
        THEN IF In(a, resp_attributes) THEN Returns(None)
             ELSE Raises(Exc("AssertionError"))
        ELSE IF obj.t = "HTML" \/ obj.t = "Element"
        THEN IF In(a, elem_attributes) THEN Returns(None)
             ELSE Raises(Exc("AssertionError"))
        ELSE Raises(Exc("TypeError")))

\* The result of a call of get or _get: what it returns or raises, the log
\* after it, the deepest nesting of get under it, and whether the recovery
\* from a validation failure was entered for the attribute "url".
Result(raised_, ret_, log, d, reentered_) ==
    [raised |-> raised_, ret |-> ret_, log |-> log, depth |-> d,
     reentered |-> reentered_]

Max(a, b) == IF a >= b THEN a ELSE b

RECURSIVE get(_, _, _, _)
RECURSIVE _get_body(_, _, _, _)

(***************************************************************************)
(* Crawler._get: the function body, then the function as decorated.  A     *)
(* call of get that raises (the recursion limit) leaves the body at once.  *)
(***************************************************************************)
_get_body(obj, a, log, d) ==
    LET err == _check_valid_get(obj, a).items[2]
    IN  IF Truthy(err)
        THEN IF err.cls = "AssertionError"
             THEN LET g == get(obj, "url", log, d + 1)
                  IN  IF g.raised /= None
                      THEN [g EXCEPT !.reentered = @ \/ a = "url"]
                      ELSE Result(None, None,
                                  _push_error(g.log, err, g.ret, None, Str(a)),
                                  g.depth, g.reentered \/ a = "url")
             ELSE Result(None, None, _push_error(log, err, None, None, Str(a)),
                         d, FALSE)
        ELSE LET acc == getattr(obj, a)
             IN  IF acc.raised /= None
                 THEN Result(acc.raised, None, log, d, FALSE)
                 ELSE IF acc.ret = None
                 THEN IF a /= "url"
                      THEN LET g == get(obj, "url", log, d + 1)
                           IN  IF g.raised /= None THEN g
                               ELSE Result(None, acc.ret,
                                           _push_error(g.log, Str("NULL attribute"),
                                                       g.ret, None, Str(a)),
                                           g.depth, g.reentered)
                      ELSE Result(None, acc.ret,
                                  _push_error(log, Str("NULL attribute"), None,
                                              None, Str(a)),
                                  d, FALSE)
                 ELSE Result(None, acc.ret, log, d, FALSE)

_get(obj, a, log, d) ==
    LET b == _get_body(obj, a, log, d)
    IN  Result(None, error_trap([raised |-> b.raised, ret |-> b.ret]), b.log,
               b.depth, b.reentered)

\* Variant of get that records the failure under the attribute 'url'.
get_wrong_attr(obj, a, log, d) ==
    IF d > MaxDepth
    THEN Result(Exc("RecursionError"), None, log, d, FALSE)
    ELSE LET r == _get(obj, a, log, d)
             attr == r.ret.items[1]
             err == r.ret.items[2]
         IN  IF Truthy(err)
             THEN LET r2 == _get(obj, "url", r.log, d)
                      u == IF a /= "url" THEN r2.ret ELSE None
                      log2 == IF a /= "url" THEN r2.log ELSE r.log
                  IN  Result(None, attr,
                             _push_error(log2, err, u, None, Str("url")),
                             IF a /= "url" THEN Max(r.depth, r2.depth) ELSE r.depth,
                             IF a /= "url" THEN r.reentered \/ r2.reentered
                             ELSE r.reentered)
             ELSE Result(None, attr, r.log, r.depth, r.reentered)

(***************************************************************************)
(* Crawler.get, called at nesting d.  Past the recursion limit the call    *)
(* raises RecursionError instead of running.                               *)
(***************************************************************************)
get(obj, a, log, d) ==
    IF d > MaxDepth
    THEN Result(Exc("RecursionError"), None, log, d, FALSE)
    ELSE LET r == _get(obj, a, log, d)
             attr == r.ret.items[1]
             err == r.ret.items[2]
         IN  IF Truthy(err)
             THEN LET r2 == _get(obj, "url", r.log, d)
                      \* u, e = self._get(obj, 'url') if a != 'url' else None, None
                      u == IF a /= "url" THEN r2.ret ELSE None
                      e == None
                      log2 == IF a /= "url" THEN r2.log ELSE r.log
                      log3 == IF Truthy(e)
                              THEN _push_error(log2, e, u, None, Str("url"))
                              ELSE log2
                  IN  Result(None, attr, _push_error(log3, err, u, None, Str(a)),
                             IF a /= "url" THEN Max(r.depth, r2.depth) ELSE r.depth,
                             IF a /= "url" THEN r.reentered \/ r2.reentered
                             ELSE r.reentered)
             ELSE Result(None, attr, r.log, r.depth, r.reentered)

(***************************************************************************)
(* Export.  A file name is the sequence of its pieces, "." being a piece   *)
(* of its own, so that splitting at the dots is computed.                  *)
(***************************************************************************)
Filenames ==
    { <<"errors", ".", "pkl">>, <<"errors", ".", "xlsx">>,
      <<"errors", ".", "csv">>, <<"errors", ".", "txt">>,
      <<"errors", ".", "pkl", ".", "txt">>, <<"errors", ".", "txt", ".", "csv">>,
      <<"errors">>, <<"pkl">>, <<"errors", ".">> }

RECURSIVE LastDot(_, _)
\* The position of the last "." among the first n pieces of name, 0 if none.
LastDot(name, n) ==
    IF n = 0 THEN 0
    ELSE IF name[n] = "." THEN n
    ELSE LastDot(name, n - 1)

\* Variant of LastPart that takes the first part: outfile.split('.')[0]
LastPart_first(name) ==
    IF name[1] = "." THEN <<>> ELSE SubSeq(name, 1, 1)

\* outfile.split('.')[-1]
LastPart(name) == SubSeq(name, LastDot(name, Len(name)) + 1, Len(name))

\* What pandas writes: the records, in the format of the writer called.
File(path, format, recs) == [path |-> path, format |-> format, recs |-> recs]

(***************************************************************************)
(* Crawler._write_errors, given whether the write to the file system       *)
(* succeeds: the (value, error) pair and what was written.                 *)
(***************************************************************************)
_write_errors(outfile, io_ok, log) ==
    LET ft == LastPart(outfile)
        format == IF ft = <<"pkl">> THEN "pickle"
                  ELSE IF ft = <<"xlsx">> THEN "excel"
                  ELSE "csv"
    IN  IF ft \notin {<<"pkl">>, <<"xlsx">>, <<"csv">>}
        THEN [pair |-> error_trap(Raises(Exc("AssertionError"))), written |-> None]
        ELSE IF ~io_ok
        THEN [pair |-> error_trap(Raises(Exc("OSError"))), written |-> None]
        ELSE [pair |-> error_trap(Returns([t |-> "path", name |-> outfile])),
              written |-> File(outfile, format, log)]

\* Variant of write_errors that empties the log once it is written.
write_errors_clears(out_fn, io_ok, log) ==
    LET w == _write_errors(out_fn, io_ok, log)
    IN  [ret |-> w.pair.items[1], raised |-> None,
         log |-> IF w.written /= None THEN <<>> ELSE log,
         written |-> w.written]

\* Crawler.write_errors
write_errors(out_fn, io_ok, log) ==
    LET w == _write_errors(out_fn, io_ok, log)
    IN  [ret |-> w.pair.items[1], raised |-> None, log |-> log,
         written |-> w.written]

(***************************************************************************)
(* The same operations with the logger in view.  self._logging is on (the  *)
(* default) and failing is the set of the logger's methods that raise when *)
(* called; with no failing method these are the operations above.          *)
(***************************************************************************)
LoggerMethods == {"info", "warning", "error"}

\* No method fails, or one does.
LoggerFailures == {{}} \cup {{m} : m \in LoggerMethods}

\* Crawler._push_error: self._logger.error(msg) comes before the append.
\* The result is the log after, and the exception raised if any.
_push_error_logged(log, error, url, comp_id, attr, failing) ==
    IF "error" \in failing
    THEN [raised |-> Exc("LoggingError"), log |-> log]
    ELSE [raised |-> None, log |-> _push_error(log, error, url, comp_id, attr)]

\* Crawler._get_response: self._logger.info for an OK response and
\* self._logger.warning for one that is not, inside the trapped body.
_get_response_logged(url, headers, timeout, cookies, outcome, failing) ==
    IF /\ outcome.raised = None
       /\ outcome.ret /= None
       /\ (IF outcome.ret.ok THEN "info" ELSE "warning") \in failing
    THEN error_trap(Raises(Exc("LoggingError")))
    ELSE _get_response(url, headers, timeout, cookies, outcome)

\* Crawler.response
response_logged(url, headers0, timeout0, cookies, c_id, out1, out2, log, failing) ==
    LET headers == Or(headers0, self_headers)
        timeout == Or(timeout0, self_timeout)
        req1 == [url |-> url, headers |-> headers, timeout |-> timeout,
                 cookies |-> cookies]
        p1 == _get_response_logged(url, headers, timeout, cookies, out1, failing)
    IN  IF NeedsRetry(p1)
        THEN LET flipped_url == flip_scheme(url)
                 req2 == [url |-> flipped_url, headers |-> headers,
                          timeout |-> timeout, cookies |-> cookies]
                 p2 == _get_response_logged(flipped_url, headers, timeout,
                                            cookies, out2, failing)
                 f_val == p2.items[1]
                 err == p2.items[2]
             IN  IF Truthy(err)
                 THEN LET q == _push_error_logged(log, err, flipped_url, c_id,
                                                  None, failing)
                      IN  [ret |-> None, raised |-> q.raised, log |-> q.log,
                           attempts |-> <<req1, req2>>]
                 ELSE LET q1 == IF f_val.items[1] = None
                                THEN _push_error_logged(log, Str("Response is NULL"),
                                                        flipped_url, c_id, None,
                                                        failing)
                                ELSE [raised |-> None, log |-> log]
                          q2 == IF q1.raised = None /\ Truthy(f_val.items[2])
                                THEN _push_error_logged(q1.log, f_val.items[2],
                                                        flipped_url, c_id, None,
                                                        failing)
                                ELSE q1
                      IN  [ret |-> IF q2.raised = None THEN f_val.items[1] ELSE None,
                           raised |-> q2.raised, log |-> q2.log,
                           attempts |-> <<req1, req2>>]
        ELSE [ret |-> p1.items[1].items[1], raised |-> None, log |-> log,
              attempts |-> <<req1>>]

\* self._push_error(...) and then `return ret_` in get and _get: the push
\* raises, or the function goes on to return.
PushThenReturn(log, error, url, attr, failing, ret_, d, reentered_) ==
    LET q == _push_error_logged(log, error, url, None, attr, failing)
    IN  IF q.raised /= None
        THEN Result(q.raised, None, q.log, d, reentered_)
        ELSE Result(None, ret_, q.log, d, reentered_)

RECURSIVE get_logged(_, _, _, _, _)
RECURSIVE _get_body_logged(_, _, _, _, _)

\* Crawler._get, the function body
_get_body_logged(obj, a, log, d, failing) ==
    LET err == _check_valid_get(obj, a).items[2]
    IN  IF Truthy(err)
        THEN IF err.cls = "AssertionError"
             THEN LET g == get_logged(obj, "url", log, d + 1, failing)
                  IN  IF g.raised /= None
                      THEN [g EXCEPT !.reentered = @ \/ a = "url"]
                      ELSE PushThenReturn(g.log, err, g.ret, Str(a), failing,
                                          None, g.depth, g.reentered \/ a = "url")
             ELSE PushThenReturn(log, err, None, Str(a), failing, None, d, FALSE)
        ELSE LET acc == getattr(obj, a)
             IN  IF acc.raised /= None
                 THEN Result(acc.raised, None, log, d, FALSE)
                 ELSE IF acc.ret = None
                 THEN IF a /= "url"
                      THEN LET g == get_logged(obj, "url", log, d + 1, failing)
                           IN  IF g.raised /= None THEN g
                               ELSE PushThenReturn(g.log, Str("NULL attribute"),
                                                   g.ret, Str(a), failing,
                                                   acc.ret, g.depth, g.reentered)
                      ELSE PushThenReturn(log, Str("NULL attribute"), None,
                                          Str(a), failing, acc.ret, d, FALSE)
                 ELSE Result(None, acc.ret, log, d, FALSE)

\* Crawler._get, as decorated
_get_logged(obj, a, log, d, failing) ==
    LET b == _get_body_logged(obj, a, log, d, failing)
    IN  Result(None, error_trap([raised |-> b.raised, ret |-> b.ret]), b.log,
               b.depth, b.reentered)

\* Crawler.get
get_logged(obj, a, log, d, failing) ==
    IF d > MaxDepth
    THEN Result(Exc("RecursionError"), None, log, d, FALSE)
    ELSE LET r == _get_logged(obj, a, log, d, failing)
             attr == r.ret.items[1]
             err == r.ret.items[2]
         IN  IF Truthy(err)
             THEN LET r2 == _get_logged(obj, "url", r.log, d, failing)
                      u == IF a /= "url" THEN r2.ret ELSE None
                      log2 == IF a /= "url" THEN r2.log ELSE r.log
                  IN  PushThenReturn(log2, err, u, Str(a), failing, attr,
                                     IF a /= "url" THEN Max(r.depth, r2.depth)
                                     ELSE r.depth,
                                     IF a /= "url" THEN r.reentered \/ r2.reentered
                                     ELSE r.reentered)
             ELSE Result(None, attr, r.log, r.depth, r.reentered)

(***************************************************************************)
(* The state machine.                                                      *)
(***************************************************************************)
DefaultRespAttributes ==
    <<"content", "encoding", "headers", "history", "html", "json", "ok",
      "reason", "status_code", "text", "url">>

DefaultElemAttributes ==
    <<"absolute_links", "base_url", "encoding", "full_text", "html", "links",
      "raw_html", "text", "url">>

\* The allow-lists an instance is constructed with: the defaults, or lists
\* given as keyword arguments that leave "url" out.
AllowLists ==
    { [resp_attributes |-> DefaultRespAttributes,
       elem_attributes |-> DefaultElemAttributes],
      [resp_attributes |-> <<"status_code", "text">>,
       elem_attributes |-> <<"text">>] }

\* Crawler.__init__: the allow-lists are the defaults or come from kwargs.
Init ==
    /\ \E kwargs \in AllowLists :
          /\ resp_attributes = kwargs.resp_attributes
          /\ elem_attributes = kwargs.elem_attributes
    /\ self_headers = Dict({"user_agent"})
    /\ self_timeout = PyInt(DefaultTimeout)
    /\ _err_recs = <<>>
    /\ op = "idle"
    /\ args = None
    /\ ret = None
    /\ raised = None
    /\ attempts = <<>>
    /\ pre_recs = <<>>
    /\ written = None
    /\ depth = 0
    /\ reentered = FALSE

Config == <<resp_attributes, elem_attributes, self_headers, self_timeout>>

CanCall == op = "idle" /\ Len(_err_recs) <= MaxLog

\* A caller invokes Crawler.response(url, headers, timeout, cookies, c_id).
Call_response ==
    /\ CanCall
    /\ \E url \in Urls, o \in Overrides, c_id \in EntityIds :
         \E out1 \in TransportOutcomes(url),
            out2 \in TransportOutcomes(flip_scheme(url)) :
           LET res == response(url, o.headers, o.timeout, o.cookies, c_id,
                               out1, out2, _err_recs)
           IN  /\ op' = "response"
               /\ args' = [url |-> url, headers |-> o.headers,
                           timeout |-> o.timeout, cookies |-> o.cookies,
                           c_id |-> c_id,
                           outcomes |-> IF Len(res.attempts) = 1
                                        THEN <<out1>> ELSE <<out1, out2>>]
               /\ ret' = res.ret
               /\ raised' = res.raised
               /\ attempts' = res.attempts
               /\ pre_recs' = _err_recs
               /\ _err_recs' = res.log
               /\ written' = None
               /\ depth' = 0
               /\ reentered' = FALSE
    /\ UNCHANGED Config

\* A caller invokes Crawler.get(obj, a).
Call_get ==
    /\ CanCall
    /\ \E obj \in Objects, a \in AttrNames :
         LET res == get(obj, a, _err_recs, 1)
         IN  /\ op' = "get"
             /\ args' = [obj |-> obj, a |-> a]
             /\ ret' = res.ret
             /\ raised' = res.raised
             /\ attempts' = <<>>
             /\ pre_recs' = _err_recs
             /\ _err_recs' = res.log
             /\ written' = None
             /\ depth' = res.depth
             /\ reentered' = res.reentered
    /\ UNCHANGED Config

\* A caller invokes Crawler.write_errors(out_fn).
Call_write_errors ==
    /\ CanCall
    /\ \E out_fn \in Filenames, io_ok \in BOOLEAN :
         LET res == write_errors(out_fn, io_ok, _err_recs)
         IN  /\ op' = "write_errors"
             /\ args' = [out_fn |-> out_fn, io_ok |-> io_ok]
             /\ ret' = res.ret
             /\ raised' = res.raised
             /\ attempts' = <<>>
             /\ pre_recs' = _err_recs
             /\ _err_recs' = res.log
             /\ written' = res.written
             /\ depth' = 0
             /\ reentered' = FALSE
    /\ UNCHANGED Config

\* The caller takes the result; the instance keeps the log and nothing else.
Resume ==
    /\ op /= "idle"
    /\ op' = "idle"
    /\ args' = None
    /\ ret' = None
    /\ raised' = None
    /\ attempts' = <<>>
    /\ pre_recs' = <<>>
    /\ written' = None
    /\ depth' = 0
    /\ reentered' = FALSE
    /\ UNCHANGED <<Config, _err_recs>>

Next ==
    \/ Call_response
    \/ Call_get
    \/ Call_write_errors
    \/ Resume

Spec == Init /\ [][Next]_vars

\* A caller invokes Crawler.response while some methods of the logger raise.
Call_response_logged ==
    /\ CanCall
    /\ \E url \in Urls, o \in Overrides, c_id \in EntityIds,
          failing \in LoggerFailures :
         \E out1 \in TransportOutcomes(url),
            out2 \in TransportOutcomes(flip_scheme(url)) :
           LET res == response_logged(url, o.headers, o.timeout, o.cookies,
                                      c_id, out1, out2, _err_recs, failing)
           IN  /\ op' = "response"
               /\ args' = [url |-> url, headers |-> o.headers,
                           timeout |-> o.timeout, cookies |-> o.cookies,
                           c_id |-> c_id,
                           outcomes |-> IF Len(res.attempts) = 1
                                        THEN <<out1>> ELSE <<out1, out2>>,
                           failing |-> failing]
               /\ ret' = res.ret
               /\ raised' = res.raised
               /\ attempts' = res.attempts
               /\ pre_recs' = _err_recs
               /\ _err_recs' = res.log
               /\ written' = None
               /\ depth' = 0
               /\ reentered' = FALSE
    /\ UNCHANGED Config

\* A caller invokes Crawler.get while some methods of the logger raise.
Call_get_logged ==
    /\ CanCall
    /\ \E obj \in Objects, a \in AttrNames, failing \in LoggerFailures :
         LET res == get_logged(obj, a, _err_recs, 1, failing)
         IN  /\ op' = "get"
             /\ args' = [obj |-> obj, a |-> a, failing |-> failing]
             /\ ret' = res.ret
             /\ raised' = res.raised
             /\ attempts' = <<>>
             /\ pre_recs' = _err_recs
             /\ _err_recs' = res.log
             /\ written' = None
             /\ depth' = res.depth
             /\ reentered' = res.reentered
    /\ UNCHANGED Config

NextLogged ==
    \/ Call_response_logged
    \/ Call_get_logged
    \/ Resume

\* The instance with a logger whose methods may raise.
SpecLogged == Init /\ [][NextLogged]_vars

(***************************************************************************)
(* Properties.  They speak of the operation that has just run, through the *)
(* history variables.                                                      *)
(***************************************************************************)
\* The classification of one transport attempt (fetch protocol, step 3).
Classify(outcome) ==
    IF outcome.raised /= None THEN "TransportFailure"
    ELSE IF outcome.ret = None THEN "NullResult"
    ELSE IF ~outcome.ret.ok THEN "ApplicationFailure"
    ELSE "Success"

Fetched == op = "response"

FirstAttempt == args.outcomes[1]

Retried == Len(args.outcomes) = 2

Retry == args.outcomes[2]

LastAttempt == args.outcomes[Len(args.outcomes)]

\* The log gained exactly the record rec.
GainedOne(rec) == _err_recs = Append(pre_recs, rec)

\* C1: a fetch whose first attempt is classified Success returns the first
\* response, makes no second transport attempt and leaves the ErrorLog as it
\* was before the call.
C1_SuccessNoRetry ==
    (Fetched /\ Classify(FirstAttempt) = "Success") =>
        /\ raised = None
        /\ ret = FirstAttempt.ret
        /\ Len(attempts) = 1
        /\ attempts[1].url = args.url
        /\ _err_recs = pre_recs

C1_Witness ==
    /\ Fetched
    /\ Classify(FirstAttempt) = "Success"
    /\ pre_recs /= <<>>

\* C2: a fetch whose first attempt is not Success issues exactly one retry,
\* against the scheme-flipped URL with the headers, timeout and cookies of
\* the first attempt; no fetch makes more than two transport attempts.
C2_OneRetry ==
    Fetched =>
        /\ Len(attempts) <= 2
        /\ Classify(FirstAttempt) /= "Success" =>
               /\ Len(attempts) = 2
               /\ attempts[2].url /= attempts[1].url
               /\ attempts[2].url.rest = attempts[1].url.rest
               /\ attempts[2] = [attempts[1] EXCEPT !.url = attempts[2].url]

\* C3: when the first attempt and the retry both fail at the transport
\* level, fetch returns None without raising and the ErrorLog gains exactly
\* one record: its url is the scheme-flipped URL (not the original), its
\* entity id is the caller's, its attribute is None and its exception is the
\* retry's.
C3_BothTransportFail ==
    (Fetched /\ Classify(FirstAttempt) = "TransportFailure") =>
        /\ Retried
        /\ Classify(Retry) = "TransportFailure" =>
               /\ raised = None
               /\ ret = None
               /\ attempts[2].url /= args.url
               /\ attempts[2].url.rest = args.url.rest
               /\ attempts[2].url.scheme \in {"http", "https"}
               /\ GainedOne([company_profile_id |-> args.c_id,
                             attribute |-> None,
                             url |-> attempts[2].url,
                             exception |-> Retry.raised])

C3_Witness ==
    /\ Fetched
    /\ Retried
    /\ FirstAttempt = Raises(Exc("Timeout"))
    /\ Retry = Raises(Exc("ConnectionError"))
    /\ args.c_id = Str("c7")
    /\ pre_recs /= <<>>

\* C4: a fetch whose last attempt (the first, or the retry after a first
\* attempt that was not Success) is Success returns that attempt's response
\* and leaves the ErrorLog unchanged, whatever the first attempt's failure.
C4_SuccessNeverLogs ==
    (Fetched /\ Classify(LastAttempt) = "Success") =>
        /\ raised = None
        /\ ret = LastAttempt.ret
        /\ ret.url = attempts[Len(attempts)].url
        /\ Classify(FirstAttempt) /= "Success" =>
               /\ Retried
               /\ ret.url /= args.url
        /\ _err_recs = pre_recs

C4_Witness ==
    /\ Fetched
    /\ Retried
    /\ Classify(FirstAttempt) = "TransportFailure"
    /\ Classify(Retry) = "Success"
    /\ pre_recs /= <<>>

\* C5: a fetch whose retry is classified ApplicationFailure appends exactly
\* one record, carrying the retry's reason and the flipped URL, and returns
\* the retried response.
C5_RetryApplicationFailure ==
    (Fetched /\ Retried /\ Classify(Retry) = "ApplicationFailure") =>
        /\ raised = None
        /\ ret = Retry.ret
        /\ GainedOne([company_profile_id |-> args.c_id,
                      attribute |-> None,
                      url |-> attempts[2].url,
                      exception |-> Retry.ret.reason])

Got == op = "get"

KnownKind == args.obj.t \in KnownKinds

\* The allow-list of the kind of the object get was called with.
AllowList ==
    IF args.obj.t = "HTMLResponse" THEN resp_attributes ELSE elem_attributes

AllowListMiss == KnownKind /\ ~In(args.a, AllowList)

\* C6: get of an attribute that is not in the allow-list of the (known)
\* kind of the result returns None and appends exactly one record, whose
\* attribute is the requested name.
C6_MissOneRecord ==
    (Got /\ AllowListMiss) =>
        /\ raised = None
        /\ ret = None
        /\ Len(_err_recs) = Len(pre_recs) + 1
        /\ SubSeq(_err_recs, 1, Len(pre_recs)) = pre_recs
        /\ _err_recs[Len(_err_recs)].attribute = Str(args.a)

\* C7: get(result, "url") on a result of a known kind never enters the
\* recovery from a validation failure for "url" itself, and so never nests
\* get up to the recursion limit, also when the allow-list leaves "url" out.
C7_UrlNeverRecurses ==
    (Got /\ KnownKind /\ args.a = "url") =>
        /\ ~reentered
        /\ depth <= MaxDepth

\* C8 as stated: get on a result of an unrecognized kind raises the type
\* error to its caller and records nothing.
C8_TypeErrorPropagates ==
    (Got /\ ~KnownKind) =>
        /\ raised /= None
        /\ _err_recs = pre_recs

\* C8 as amended: get on a result of an unrecognized kind raises nothing:
\* it returns None and appends one record holding the TypeError, the
\* requested attribute and no url; unlike an allow-list miss it looks up no
\* url (get is not nested).
C8_TypeErrorRecorded ==
    (Got /\ ~KnownKind) =>
        /\ raised = None
        /\ ret = None
        /\ depth = 1
        /\ GainedOne([company_profile_id |-> None,
                      attribute |-> Str(args.a),
                      url |-> None,
                      exception |-> Exc("TypeError")])

C8_Witness ==
    /\ Got
    /\ args.obj = None
    /\ pre_recs /= <<>>

Exported == op = "write_errors"

\* The extension of the destination: its piece after the last dot.
Extension ==
    LET last == args.out_fn[Len(args.out_fn)]
    IN  IF last = "." THEN "" ELSE last

FormatOf(ext) ==
    IF ext = "pkl" THEN "pickle" ELSE IF ext = "xlsx" THEN "excel" ELSE "csv"

\* The destination is a name, a dot and an extension.
HasExtension ==
    /\ Len(args.out_fn) >= 3
    /\ args.out_fn[Len(args.out_fn) - 1] = "."
    /\ args.out_fn[Len(args.out_fn)] /= "."

\* C10 as stated: a successful export writes the pickle for ".pkl", the
\* spreadsheet for ".xlsx" and delimited text for every other extension, and
\* returns the destination.
C10_OtherIsCsv ==
    (Exported /\ HasExtension /\ args.io_ok) =>
        /\ written = File(args.out_fn, FormatOf(Extension), pre_recs)
        /\ ret = [t |-> "path", name |-> args.out_fn]

\* C10 as amended: the extension is what follows the last dot of the
\* destination (all of it when it has no dot).  A successful export writes
\* the pickle for "pkl", the spreadsheet for "xlsx" and delimited text for
\* "csv" only, and returns the destination; for any other extension, as
\* when the write fails, it writes nothing and returns None.
C10_FormatByExtension ==
    Exported =>
        IF Extension \in {"pkl", "xlsx", "csv"} /\ args.io_ok
        THEN /\ written = File(args.out_fn, FormatOf(Extension), pre_recs)
             /\ ret = [t |-> "path", name |-> args.out_fn]
             /\ raised = None
        ELSE /\ written = None
             /\ ret = None
             /\ raised = None

C10_Witness ==
    /\ Exported
    /\ args.io_ok
    /\ Extension = "xlsx"
    /\ Len(args.out_fn) = 3
    /\ pre_recs /= <<>>

\* C11: a failing logger changes nothing of what fetch and get do for their
\* caller: with the same transport outcomes, fetch returns what it returns
\* when every logger call succeeds, after as many transport attempts, and
\* get returns what it returns then; neither raises the logger's exception.
\* (A failing logger never saves a transport attempt, so a fetch that made
\* one attempt makes one with a quiet logger too, whatever a retry would get.)
C11_LoggerNeverMatters ==
    /\ Fetched =>
           LET quiet == response(args.url, args.headers, args.timeout,
                                 args.cookies, args.c_id, FirstAttempt,
                                 LastAttempt, pre_recs)
           IN  /\ raised = quiet.raised
               /\ ret = quiet.ret
               /\ Len(attempts) = Len(quiet.attempts)
    /\ Got =>
           LET quiet == get(args.obj, args.a, pre_recs, 1)
           IN  /\ raised = quiet.raised
               /\ ret = quiet.ret

\* With no failing method the logged operations are the operations of Spec.
LoggedAgrees ==
    /\ (Fetched /\ args.failing = {}) =>
           LET quiet == response(args.url, args.headers, args.timeout,
                                 args.cookies, args.c_id, FirstAttempt,
                                 LastAttempt, pre_recs)
           IN  /\ raised = quiet.raised
               /\ ret = quiet.ret
               /\ attempts = quiet.attempts
               /\ _err_recs = quiet.log
    /\ (Got /\ args.failing = {}) =>
           LET quiet == get(args.obj, args.a, pre_recs, 1)
           IN  /\ raised = quiet.raised
               /\ ret = quiet.ret
               /\ _err_recs = quiet.log
               /\ depth = quiet.depth
               /\ reentered = quiet.reentered

\* The log before the call is the beginning of the log after it.
LogExtended ==
    /\ Len(_err_recs) >= Len(pre_recs)
    /\ SubSeq(_err_recs, 1, Len(pre_recs)) = pre_recs

\* C12: when fetch or get returns None, the call has appended at least one
\* record to the ErrorLog; and fetch raises nothing to its caller.
C12_NoneIsRecorded ==
    /\ ((Fetched \/ Got) /\ raised = None /\ ret = None) =>
           /\ LogExtended
           /\ Len(_err_recs) > Len(pre_recs)
    /\ Fetched => raised = None

C12_Witness ==
    /\ Fetched
    /\ Retried
    /\ Classify(FirstAttempt) = "NullResult"
    /\ Classify(Retry) = "NullResult"
    /\ ret = None
    /\ pre_recs /= <<>>

\* C13: the ErrorLog is append-only: every step leaves the log it finds as
\* the beginning of the log it leaves, and a step that is an export,
\* successful or not, leaves the log as it finds it.
C13_AppendOnly ==
    [][ /\ Len(_err_recs') >= Len(_err_recs)
        /\ SubSeq(_err_recs', 1, Len(_err_recs)) = _err_recs
        /\ op' = "write_errors" => _err_recs' = _err_recs ]_vars

C13_Witness ==
    /\ Exported
    /\ written /= None
    /\ pre_recs /= <<>>
    /\ _err_recs = pre_recs

\* What reading the requested attribute of the object does.
Accessor ==
    IF args.a = "url" THEN args.obj.url_acc ELSE args.obj.attr_acc

AccessorRaises ==
    /\ KnownKind
    /\ In(args.a, AllowList)
    /\ Accessor.raised /= None

\* C14: when the accessor of an allow-listed attribute of a result of a
\* known kind raises, get raises nothing: it returns None and appends a
\* record of that exception whose attribute is the requested name.
C14_AccessorExceptionRecorded ==
    (Got /\ AccessorRaises) =>
        /\ raised = None
        /\ ret = None
        /\ LogExtended
        /\ Len(_err_recs) > Len(pre_recs)
        /\ _err_recs[Len(_err_recs)].attribute = Str(args.a)
        /\ _err_recs[Len(_err_recs)].exception = Accessor.raised

C14_Witness ==
    /\ Got
    /\ AccessorRaises
    /\ args.a = "json"
    /\ pre_recs /= <<>>

\* C15: the url of every record of the ErrorLog is None or one URL, never a
\* compound value such as a (value, error) pair.
C15_UrlIsNoneOrUrl ==
    \A i \in 1..Len(_err_recs) : _err_recs[i].url.t \in {"None", "url"}

====
